---- MODULE Spec2Model ----
(***************************************************************************)
(* Event listing and registration application (Django app "events").       *)
(* The store holds Event, EventCategory, EventRegistration and             *)
(* EventComment rows. A request handler of views.py runs its store         *)
(* queries one after the other with no transaction around them, so every   *)
(* action is one read of one request, a query or a reading of the clock    *)
(* (with the Python code up to the next read), and the requests of several *)
(* workers interleave between any two reads. A request leaves its response *)
(* in resp when it ends.                                                   *)
(***************************************************************************)
EXTENDS Integers, Sequences, FiniteSets, TLC

\* ---------------------------------------------------------------- bounds
\* Number of Event primary keys the store hands out.
MaxEvents == 2
\* Number of user accounts that have signed up.
NumUsers == 2
\* Largest capacidad an administrator enters.
MaxCap == 1
\* Largest fecha_inicio / fecha_fin; the clock runs one tick further.
MaxTime == 1
\* Number of EventComment rows the store holds at most.
MaxComments == 1
\* Number of requests the server handles at the same time.
NumWorkers == 2
\* Number of Category rows.
NumCategories == 1
\* Number of the Event.TipoEvento choices in use.
NumTipos == 2

\* ---------------------------------------------------------------- values
\* request.user of a request without a session (AnonymousUser).
Anonymous == 0
Users == 1..NumUsers
Requesters == Users \cup {Anonymous}
EventIds == 1..MaxEvents
\* Ids a URL can carry: every id the store can hand out and one it never does.
UrlIds == 1..(MaxEvents + 1)
Times == 0..MaxTime
\* Primary keys of the Category rows an administrator has created.
Categories == 1..NumCategories
\* Event.TipoEvento: the choices in use.
TipoEvento == <<"CHARLA", "TALLER", "FERIA", "CONCIERTO">>
Tipos == {TipoEvento[i] : i \in 1..NumTipos}
\* Python's None and a present value, for the nullable fields and POST fields.
None == <<>>
Some(x) == <<x>>
Val(o) == o[1]

CapInputs == {None} \cup {Some(n) : n \in (-1)..MaxCap}
PrecioInputs == {None, Some(-1), Some(0)}
\* request.POST.get("cancel"): absent, present and empty, present with a value.
CancelInputs == {None, Some(""), Some("1")}
\* The body of a request to comment: texts as sequences of code points
\* (32 space, 97 "a"), or no comentario field.
ComentarioInputs == {None, Some(<<>>), Some(<<32>>), Some(<<97>>)}
\* The text an administrator enters for a comment.
Comentarios == {<<97>>}

\* request.GET.get("tipo", ""): absent, empty, one of the choices.
TipoInputs == {None, Some("")} \cup {Some(t) : t \in Tipos}

EventInputs ==
    [tipo : Tipos, activo : BOOLEAN, fecha_inicio : Times, fecha_fin : Times,
     capacidad : CapInputs, precio : PrecioInputs]

VARIABLES
    users,      \* auth.User table: the accounts that exist
    categories, \* Category table: the primary keys of its rows
    events,     \* Event table: primary key -> row
    nextId,     \* next primary key of the Event table (auto-increment)
    links,      \* EventCategory table: the pairs <<evento, categoria>> it holds
    regs,       \* EventRegistration table: <<evento, usuario>> -> number of rows
    comments,   \* EventComment table: sequence of rows, oldest first
    now,        \* timezone.now()
    resp,       \* the response of the request that ended last
    pc,         \* per worker: the read its request makes next
    rq          \* per worker: the locals of its request

vars == <<users, categories, events, nextId, links, regs, comments, now, resp, pc, rq>>
workers == <<pc, rq>>

\* ---------------------------------------------------------------- helpers
\* Variant of Max without the clamp at the first argument.
Max_NoClamp(a, b) == b

Max(a, b) == IF a >= b THEN a ELSE b

\* Sum of f[x] over x in S: the row count of a filtered queryset.
RECURSIVE Sum(_, _)
Sum(f, S) ==
    IF S = {} THEN 0
    ELSE LET x == CHOOSE y \in S : TRUE
         IN f[x] + Sum(f, S \ {x})

\* Python truthiness of an optional POST string.
Truthy(o) == o # None /\ Val(o) # ""

\* The code points c with chr(c).isspace(): what str.strip() removes.
Whitespace ==
    (9..13) \cup (28..32) \cup {133, 160, 5760} \cup (8192..8202)
        \cup {8232, 8233, 8239, 8287, 12288}
IsSpace(c) == c \in Whitespace

RECURSIVE LStrip(_)
LStrip(s) ==
    IF s # <<>> /\ IsSpace(Head(s)) THEN LStrip(Tail(s)) ELSE s

RECURSIVE RStrip(_)
RStrip(s) ==
    IF s # <<>> /\ IsSpace(s[Len(s)]) THEN RStrip(SubSeq(s, 1, Len(s) - 1)) ELSE s

\* str.strip()
Strip(s) == RStrip(LStrip(s))

\* A response: the view that gave it, where it leads, and its flash message.
Response(view, status, level, msg) ==
    [view |-> view, status |-> status, level |-> level, msg |-> msg]
\* get_object_or_404 found no row.
Http404(view) == Response(view, "404", "none", "Http404")

\* ---------------------------------------------------------------- models.py
\* Variant of Event.clean without the check of the dates.
Event_clean_NoDateCheck(ev) ==
    IF ev.capacidad # None /\ Val(ev.capacidad) < 1 THEN "capacidad"
    ELSE IF ev.precio # None /\ Val(ev.precio) < 0 THEN "precio"
    ELSE "ok"

\* Variant of Event.clean without the check of capacidad.
Event_clean_NoCapacityCheck(ev) ==
    IF ev.fecha_fin <= ev.fecha_inicio THEN "fecha_fin"
    ELSE IF ev.precio # None /\ Val(ev.precio) < 0 THEN "precio"
    ELSE "ok"

\* Event.clean: the field whose validation fails, or "ok".
Event_clean(ev) ==
    IF ev.fecha_fin <= ev.fecha_inicio THEN "fecha_fin"
    ELSE IF ev.capacidad # None /\ Val(ev.capacidad) < 1 THEN "capacidad"
    ELSE IF ev.precio # None /\ Val(ev.precio) < 0 THEN "precio"
    ELSE "ok"

\* self.registrations.count()
total_registrados(e) == Sum([u \in Users |-> regs[<<e, u>>]], Users)

\* Variant of espacios_disponibles that takes every capacidad as unset.
espacios_disponibles_Unset(evento, e) == None

espacios_disponibles(evento, e) ==
    IF evento.capacidad = None THEN None
    ELSE Some(Max(0, Val(evento.capacidad) - total_registrados(e)))

\* Variant of esta_lleno that treats every event as one without capacidad.
esta_lleno_Never(evento, e) == FALSE

\* Variant of esta_lleno that compares below zero.
esta_lleno_BelowZero(evento, e) ==
    LET espacios == espacios_disponibles(evento, e)
    IN espacios # None /\ Val(espacios) < 0

esta_lleno(evento, e) ==
    LET espacios == espacios_disponibles(evento, e)
    IN espacios # None /\ Val(espacios) = 0

\* Variants of esta_activo: one forgets fecha_fin, one ends the event a tick early.
esta_activo_IgnoresEnd(evento) == evento.activo
esta_activo_Strict(evento) == evento.activo /\ evento.fecha_fin > now

esta_activo(evento) == evento.activo /\ evento.fecha_fin >= now

puede_registrarse(evento, e) == esta_activo(evento) /\ ~esta_lleno(evento, e)

\* Variant of the INSERT on a table without unique_together.
InsertAllowed_NoUnique(e, u) == e \in DOMAIN events /\ u \in users

\* The INSERT of super().save(): unique_together (evento, usuario) and the
\* foreign keys to Event and to auth.User are constraints of the table.
InsertAllowed(e, u) == e \in DOMAIN events /\ u \in users /\ regs[<<e, u>>] = 0

\* Variant of the lookup without the activo filter.
Found_IgnoresFlag(e) == e \in DOMAIN events

\* get_object_or_404(Event, id=event_id, activo=True)
Found(e) == e \in DOMAIN events /\ events[e].activo

\* request.user: the account of the session while it exists, AnonymousUser if not.
LoggedIn(u) == IF u \in users THEN u ELSE Anonymous

Workers == 1..NumWorkers
\* The locals of a worker that handles no request.
NoRequest ==
    [user |-> Anonymous, event |-> 0, registro |-> FALSE, fila |-> None, guardando |-> FALSE,
     evento |-> [tipo |-> TipoEvento[1], activo |-> FALSE, fecha_inicio |-> 0,
                 fecha_fin |-> 0, capacidad |-> None, precio |-> None],
     texto |-> <<>>, tipo_evento |-> "", i |-> 1, tipos_eventos |-> <<>>, total |-> 0,
     asistidos |-> 0, ahora |-> 0]

\* The EventRegistration row a request holds, by the pair it has now: the row
\* of the request's event and user, unless an administrator has moved it since.
Row(w) == IF rq[w].fila = None THEN <<rq[w].event, rq[w].user>> ELSE Val(rq[w].fila)
\* The requests that hold the row of the pair p.
Holders(p) == {w \in Workers : rq[w].registro /\ Row(w) = p}

\* ---------------------------------------------------------------- Init
\* The accounts have signed up and the categories are entered; no event yet.
Init ==
    /\ users = Users
    /\ categories = Categories
    /\ events = <<>>
    /\ nextId = 1
    /\ links = {}
    /\ regs = [p \in EventIds \X Users |-> 0]
    /\ comments = <<>>
    /\ now = 0
    /\ resp = Response("none", "none", "none", "none")
    /\ pc = [w \in Workers |-> "idle"]
    /\ rq = [w \in Workers |-> NoRequest]

\* ---------------------------------------------------------------- time
Tick ==
    /\ now <= MaxTime
    /\ now' = now + 1
    /\ UNCHANGED <<users, categories, events, nextId, links, regs, comments, resp, workers>>

\* ---------------------------------------------------------------- admin.py
\* The answers of the admin site: a row saved, a write the table refused.
Saved == Response("admin", "saved", "none", "ok")
IntegrityError(fields) == Response("admin", "IntegrityError", "error", fields)
\* What delete() returns: the numbers of EventRegistration, EventComment and
\* EventCategory rows deleted.
RowsDeleted(r, c, l) == Response("admin", "deleted", "none", <<r, c, l>>)

\* Event.save(): clean() raises before super().save() writes the row.
EventSave(e, ev) ==
    /\ \/ e \in DOMAIN events
       \/ e = nextId /\ nextId <= MaxEvents
    /\ IF Event_clean(ev) = "ok"
       THEN /\ events' = (e :> ev) @@ events
            /\ nextId' = IF e = nextId THEN nextId + 1 ELSE nextId
            /\ resp' = Saved
       ELSE /\ UNCHANGED <<events, nextId>>
            /\ resp' = Response("admin", "ValidationError", "error", Event_clean(ev))
    /\ UNCHANGED <<users, categories, links, regs, comments, now, workers>>

\* The INSERT of an EventCategory row: the foreign keys to Event and Category
\* and unique_together (evento, categoria) are constraints of the table.
EventCategorySave(e, c) ==
    /\ IF e \in DOMAIN events /\ c \in categories /\ <<e, c>> \notin links
       THEN /\ links' = links \cup {<<e, c>>}
            /\ resp' = Saved
       ELSE /\ UNCHANGED links
            /\ resp' = IntegrityError("evento, categoria")
    /\ UNCHANGED <<users, categories, events, nextId, regs, comments, now, workers>>

\* The UPDATE of the EventCategory row l to another event or category, under
\* the same constraints.
EventCategoryChange(l, e, c) ==
    /\ l \in links
    /\ IF e \in DOMAIN events /\ c \in categories /\ <<e, c>> \notin links \ {l}
       THEN /\ links' = (links \ {l}) \cup {<<e, c>>}
            /\ resp' = Saved
       ELSE /\ UNCHANGED links
            /\ resp' = IntegrityError("evento, categoria")
    /\ UNCHANGED <<users, categories, events, nextId, regs, comments, now, workers>>

\* EventCategory.delete()
EventCategoryDelete(l) ==
    /\ l \in links
    /\ links' = links \ {l}
    /\ resp' = RowsDeleted(0, 0, 1)
    /\ UNCHANGED <<users, categories, events, nextId, regs, comments, now, workers>>

\* Category.delete(): on_delete=CASCADE removes the links of the category.
CategoryDelete(c) ==
    /\ c \in categories
    /\ categories' = categories \ {c}
    /\ links' = {l \in links : l[2] # c}
    /\ resp' = RowsDeleted(0, 0, Cardinality({l \in links : l[2] = c}))
    /\ UNCHANGED <<users, events, nextId, regs, comments, now, workers>>

\* The INSERT of an EventComment row an administrator enters: the foreign keys
\* to Event and auth.User are constraints of the table.
EventCommentSave(e, u, texto) ==
    /\ Len(comments) < MaxComments
    /\ IF e \in DOMAIN events /\ u \in users
       THEN /\ comments' = Append(comments, [evento |-> e, usuario |-> u, comentario |-> texto])
            /\ resp' = Saved
       ELSE /\ UNCHANGED comments
            /\ resp' = IntegrityError("evento, usuario")
    /\ UNCHANGED <<users, categories, events, nextId, links, regs, now, workers>>

\* The UPDATE of the i-th EventComment row.
EventCommentChange(i, e, u, texto) ==
    /\ i \in 1..Len(comments)
    /\ IF e \in DOMAIN events /\ u \in users
       THEN /\ comments' =
                [comments EXCEPT ![i] = [evento |-> e, usuario |-> u, comentario |-> texto]]
            /\ resp' = Saved
       ELSE /\ UNCHANGED comments
            /\ resp' = IntegrityError("evento, usuario")
    /\ UNCHANGED <<users, categories, events, nextId, links, regs, now, workers>>

\* EventComment.delete() of the i-th row.
EventCommentDelete(i) ==
    /\ i \in 1..Len(comments)
    /\ comments' = SubSeq(comments, 1, i - 1) \o SubSeq(comments, i + 1, Len(comments))
    /\ resp' = RowsDeleted(0, 1, 0)
    /\ UNCHANGED <<users, categories, events, nextId, links, regs, now, workers>>

\* EventRegistration.delete() by an administrator. A request that holds the
\* row holds a row that is gone.
EventRegistrationDelete(p) ==
    /\ p \in DOMAIN regs
    /\ regs[p] > 0
    /\ regs' = [regs EXCEPT ![p] = 0]
    /\ resp' = RowsDeleted(regs[p], 0, 0)
    /\ rq' = [w \in Workers |->
                IF w \in Holders(p) THEN [rq[w] EXCEPT !.registro = FALSE] ELSE rq[w]]
    /\ UNCHANGED <<users, categories, events, nextId, links, comments, now, pc>>

\* User.delete(): on_delete=CASCADE removes the registrations and comments of
\* the account. A request of the user that is under way runs on.
UserDelete(u) ==
    /\ u \in users
    /\ users' = users \ {u}
    /\ regs' = [p \in DOMAIN regs |-> IF p[2] = u THEN 0 ELSE regs[p]]
    /\ comments' = SelectSeq(comments, LAMBDA c : c.usuario # u)
    /\ resp' = RowsDeleted(Sum([e \in EventIds |-> regs[<<e, u>>]], EventIds),
                           Len(SelectSeq(comments, LAMBDA c : c.usuario = u)), 0)
    /\ rq' = [w \in Workers |->
                IF rq[w].registro /\ Row(w)[2] = u
                THEN [rq[w] EXCEPT !.registro = FALSE] ELSE rq[w]]
    /\ UNCHANGED <<categories, events, nextId, links, now, pc>>

\* What Event.delete() returns: the numbers of EventRegistration, EventComment
\* and EventCategory rows it deleted along with the event.
Deleted(e) ==
    RowsDeleted(total_registrados(e),
                Len(SelectSeq(comments, LAMBDA c : c.evento = e)),
                Cardinality({l \in links : l[1] = e}))

\* Variant of Event.delete() on foreign keys that do not cascade.
EventDelete_NoCascade(e) ==
    /\ e \in DOMAIN events
    /\ events' = [x \in DOMAIN events \ {e} |-> events[x]]
    /\ resp' = Deleted(e)
    /\ UNCHANGED <<users, categories, nextId, links, regs, comments, now, workers>>

\* Event.delete(): on_delete=CASCADE removes the event's registrations,
\* comments and category links with it, in one transaction. A request that
\* holds a registration row of the event holds a row that is gone.
EventDelete(e) ==
    /\ e \in DOMAIN events
    /\ events' = [x \in DOMAIN events \ {e} |-> events[x]]
    /\ links' = {l \in links : l[1] # e}
    /\ regs' = [p \in DOMAIN regs |-> IF p[1] = e THEN 0 ELSE regs[p]]
    /\ comments' = SelectSeq(comments, LAMBDA c : c.evento # e)
    /\ resp' = Deleted(e)
    /\ rq' = [w \in Workers |->
                IF rq[w].registro /\ Row(w)[1] = e
                THEN [rq[w] EXCEPT !.registro = FALSE] ELSE rq[w]]
    /\ UNCHANGED <<users, categories, nextId, now, pc>>

\* ---------------------------------------------------------------- views.py
\* A request ends: its response goes out and its worker is free again.
Finish(w, r) ==
    /\ resp' = r
    /\ pc' = [pc EXCEPT ![w] = "idle"]
    /\ rq' = [rq EXCEPT ![w] = NoRequest]

\* A request goes on to its next read.
Goto(w, label) ==
    /\ pc' = [pc EXCEPT ![w] = label]
    /\ UNCHANGED <<resp, rq>>

\* ---------------------------------------------------------------- EventDetailView.get
DetailPage(ya_registrado) ==
    Response("event_detail", "200", "none",
             IF ya_registrado THEN "ya_registrado" ELSE "no_registrado")

\* Lines 110-114: get_object_or_404; without a session the page is rendered at once.
DetailStart(w, u, e) ==
    /\ pc[w] = "idle"
    /\ UNCHANGED <<users, categories, events, nextId, links, regs, comments, now>>
    /\ IF ~Found(e) THEN Finish(w, Http404("event_detail"))
       ELSE IF u = Anonymous THEN Finish(w, DetailPage(FALSE))
       ELSE /\ rq' = [rq EXCEPT ![w] = [NoRequest EXCEPT !.user = u, !.event = e]]
            /\ pc' = [pc EXCEPT ![w] = "detail_exists"]
            /\ UNCHANGED resp

\* Lines 115-123: ya_registrado = ...filter(evento, usuario).exists()
DetailExists(w) ==
    /\ pc[w] = "detail_exists"
    /\ UNCHANGED <<users, categories, events, nextId, links, regs, comments, now>>
    /\ Finish(w, DetailPage(regs[<<rq[w].event, rq[w].user>>] > 0))

\* ---------------------------------------------------------------- EventRegisterView.post
\* The responses: redirect target, message level, message.
LoginRequired ==
    Response("event_register", "302:login", "error", "Debes iniciar sesion para registrarte en un evento.")
Cancelled == Response("event_register", "302:event_detail", "success", "Se cancelo tu registro.")
NothingToCancel ==
    Response("event_register", "302:event_detail", "info", "No encontre un registro tuyo para cancelar.")
AlreadyRegistered == Response("event_register", "302:event_detail", "info", "Ya estas registrado.")
EventFull == Response("event_register", "302:event_detail", "error", "El evento esta lleno.")
NotAccepting == Response("event_register", "302:event_detail", "error", "El evento no acepta registros.")
Registered == Response("event_register", "302:event_detail", "success", "Te has registrado exitosamente.")
TryAgain ==
    Response("event_register", "302:event_detail", "error",
             "No fue posible completar el registro. Intenta nuevamente.")

\* Lines 140-147: the authentication check, get_object_or_404 and the cancel field.
Start(w, u, e, cancel) ==
    /\ pc[w] = "idle"
    /\ UNCHANGED <<users, categories, events, nextId, links, regs, comments, now>>
    /\ IF u = Anonymous THEN Finish(w, LoginRequired)
       ELSE IF ~Found(e) THEN Finish(w, Http404("event_register"))
       ELSE /\ rq' = [rq EXCEPT ![w] =
                        [NoRequest EXCEPT !.user = u, !.event = e, !.evento = events[e]]]
            /\ pc' = [pc EXCEPT ![w] = IF Truthy(cancel) THEN "cancel_first" ELSE "exists"]
            /\ UNCHANGED resp

\* Variant of line 148 that looks for a registration only of an event that
\* still takes registrations.
CancelFirst_OnlyIfOpen(w) ==
    /\ pc[w] = "cancel_first"
    /\ UNCHANGED <<users, categories, events, nextId, links, regs, comments, now>>
    /\ IF /\ regs[<<rq[w].event, rq[w].user>>] > 0
          /\ puede_registrarse(rq[w].evento, rq[w].event)
       THEN /\ rq' = [rq EXCEPT ![w].registro = TRUE]
            /\ pc' = [pc EXCEPT ![w] = "cancel_delete"]
            /\ UNCHANGED resp
       ELSE Finish(w, NothingToCancel)

\* Lines 148-149, 152-154: registro = ...filter(evento, usuario).first()
CancelFirst(w) ==
    /\ pc[w] = "cancel_first"
    /\ UNCHANGED <<users, categories, events, nextId, links, regs, comments, now>>
    /\ IF regs[<<rq[w].event, rq[w].user>>] > 0
       THEN /\ rq' = [rq EXCEPT ![w].registro = TRUE]
            /\ pc' = [pc EXCEPT ![w] = "cancel_delete"]
            /\ UNCHANGED resp
       ELSE Finish(w, NothingToCancel)

\* Lines 150-151, 154: registro.delete() deletes the fetched row, if it is still
\* there, and the success message goes out either way. rq[x].registro of every
\* other request that holds the row turns FALSE: its row is gone.
CancelDelete(w) ==
    LET p == Row(w)
    IN  /\ pc[w] = "cancel_delete"
        /\ UNCHANGED <<users, categories, events, nextId, links, comments, now>>
        /\ regs' = IF rq[w].registro THEN [regs EXCEPT ![p] = @ - 1] ELSE regs
        /\ resp' = Cancelled
        /\ pc' = [pc EXCEPT ![w] = "idle"]
        /\ rq' = [x \in Workers |->
                    IF x = w THEN NoRequest
                    ELSE IF x \in Holders(p) /\ rq[w].registro
                         THEN [rq[x] EXCEPT !.registro = FALSE]
                         ELSE rq[x]]

\* Lines 157-159: the view's own duplicate check.
Exists(w) ==
    /\ pc[w] = "exists"
    /\ UNCHANGED <<users, categories, events, nextId, links, regs, comments, now>>
    /\ IF regs[<<rq[w].event, rq[w].user>>] > 0
       THEN Finish(w, AlreadyRegistered)
       ELSE Goto(w, "puede_activo")

\* Line 162, evento.puede_registrarse(): esta_activo() reads the clock, on the
\* fields the request loaded. An event that is not active is not asked whether
\* it is full (`and`), and one without capacidad is not full, with no query.
PuedeActivo(w) ==
    /\ pc[w] = "puede_activo"
    /\ UNCHANGED <<users, categories, events, nextId, links, regs, comments, now>>
    /\ IF ~esta_activo(rq[w].evento) THEN Goto(w, "lleno")
       ELSE IF rq[w].evento.capacidad = None THEN Goto(w, "clean_puede_activo")
       ELSE Goto(w, "puede_lleno")

\* Line 162, evento.puede_registrarse(): esta_lleno() counts the registrations
\* the store holds now.
PuedeLleno(w) ==
    /\ pc[w] = "puede_lleno"
    /\ UNCHANGED <<users, categories, events, nextId, links, regs, comments, now>>
    /\ IF esta_lleno(rq[w].evento, rq[w].event)
       THEN Goto(w, "lleno")
       ELSE Goto(w, "clean_puede_activo")

\* Lines 163-167: evento.esta_lleno() asked again to choose the message.
Lleno(w) ==
    /\ pc[w] = "lleno"
    /\ UNCHANGED <<users, categories, events, nextId, links, regs, comments, now>>
    /\ Finish(w, IF esta_lleno(rq[w].evento, rq[w].event) THEN EventFull ELSE NotAccepting)

\* EventRegistration.clean line 263, inside objects.create() -> save():
\* puede_registrarse() reads the clock. When it is false, line 264 asks
\* esta_lleno(), which is false with no query for an event without capacidad.
CleanPuedeActivo(w) ==
    /\ pc[w] = "clean_puede_activo"
    /\ UNCHANGED <<users, categories, events, nextId, links, regs, comments, now>>
    /\ IF esta_activo(rq[w].evento)
       THEN IF rq[w].evento.capacidad = None
            THEN Goto(w, "clean_exists")
            ELSE Goto(w, "clean_puede_lleno")
       ELSE IF rq[w].evento.capacidad = None
            THEN Goto(w, "clean_activo")
            ELSE Goto(w, "clean_lleno")

\* EventRegistration.clean line 263: puede_registrarse() counts the registrations.
CleanPuedeLleno(w) ==
    /\ pc[w] = "clean_puede_lleno"
    /\ UNCHANGED <<users, categories, events, nextId, links, regs, comments, now>>
    /\ IF esta_lleno(rq[w].evento, rq[w].event)
       THEN Goto(w, "clean_lleno")
       ELSE Goto(w, "clean_exists")

\* EventRegistration.clean lines 264-265: esta_lleno() counts again; the
\* ValidationError is caught at line 173.
CleanLleno(w) ==
    /\ pc[w] = "clean_lleno"
    /\ UNCHANGED <<users, categories, events, nextId, links, regs, comments, now>>
    /\ IF esta_lleno(rq[w].evento, rq[w].event)
       THEN Finish(w, TryAgain)
       ELSE Goto(w, "clean_activo")

\* EventRegistration.clean lines 266-267: esta_activo() reads the clock again;
\* the ValidationError is caught at line 173.
CleanActivo(w) ==
    /\ pc[w] = "clean_activo"
    /\ UNCHANGED <<users, categories, events, nextId, links, regs, comments, now>>
    /\ IF ~esta_activo(rq[w].evento)
       THEN Finish(w, TryAgain)
       ELSE Goto(w, "clean_exists")

\* EventRegistration.clean lines 270-275: objects.create() builds a row
\* without a primary key, so `if not self.pk` holds and the duplicate check runs.
CleanExists(w) ==
    /\ pc[w] = "clean_exists"
    /\ UNCHANGED <<users, categories, events, nextId, links, regs, comments, now>>
    /\ IF regs[<<rq[w].event, rq[w].user>>] > 0
       THEN Finish(w, TryAgain)
       ELSE Goto(w, "insert")

\* Variant of the INSERT whose IntegrityError leaves the view uncaught.
Insert_Uncaught(w) ==
    /\ pc[w] = "insert"
    /\ UNCHANGED <<users, categories, events, nextId, links, comments, now>>
    /\ IF InsertAllowed(rq[w].event, rq[w].user)
       THEN /\ regs' = [regs EXCEPT ![<<rq[w].event, rq[w].user>>] = @ + 1]
            /\ Finish(w, Registered)
       ELSE /\ UNCHANGED regs
            /\ Finish(w, Response("event_register", "500", "none", "IntegrityError"))

\* EventRegistration.save line 280: the INSERT; an IntegrityError is caught at line 173.
Insert(w) ==
    /\ pc[w] = "insert"
    /\ UNCHANGED <<users, categories, events, nextId, links, comments, now>>
    /\ IF InsertAllowed(rq[w].event, rq[w].user)
       THEN /\ regs' = [regs EXCEPT ![<<rq[w].event, rq[w].user>>] = @ + 1]
            /\ Finish(w, Registered)
       ELSE /\ UNCHANGED regs
            /\ Finish(w, TryAgain)

\* ---------------------------------------------------------------- MyEventsView.get
\* Lines 279-287: the user's registrations, rows per event, narrowed to the
\* events of one tipo when the request names one.
mis_registros(u, tipo_evento) ==
    [e \in EventIds |->
        IF tipo_evento = "" \/ (e \in DOMAIN events /\ events[e].tipo = tipo_evento)
        THEN regs[<<e, u>>]
        ELSE 0]
\* mis_registros.count()
total_eventos(u, tipo_evento) == Sum(mis_registros(u, tipo_evento), EventIds)
\* mis_registros.filter(evento__fecha_fin__lt=ahora).count()
eventos_asistidos(u, tipo_evento, ahora) ==
    Sum(mis_registros(u, tipo_evento),
        {e \in EventIds : e \in DOMAIN events /\ events[e].fecha_fin < ahora})
\* mis_registros.filter(evento__fecha_inicio__gte=ahora).count()
eventos_proximos(u, tipo_evento, ahora) ==
    Sum(mis_registros(u, tipo_evento),
        {e \in EventIds : e \in DOMAIN events /\ events[e].fecha_inicio >= ahora})

MyLoginRequired ==
    Response("my_events", "302:login", "warning", "Debes iniciar sesion para ver tus eventos.")
\* Lines 291-294: the user's registrations in events of one tipo.
tipo_count(u, tipo_code) == total_eventos(u, tipo_code)
\* The page with its three counts and its list of tipos.
MyPage(total, asistidos, proximos, tipos_eventos) ==
    Response("my_events", "200", "none", <<total, asistidos, proximos, tipos_eventos>>)

\* Lines 271-287: the authentication check and the tipo of the query string;
\* the querysets are built, not yet run.
MyStart(w, u, tipo) ==
    /\ pc[w] = "idle"
    /\ UNCHANGED <<users, categories, events, nextId, links, regs, comments, now>>
    /\ IF u = Anonymous THEN Finish(w, MyLoginRequired)
       ELSE /\ rq' = [rq EXCEPT ![w] =
                        [NoRequest EXCEPT !.user = u,
                                          !.tipo_evento = IF tipo = None THEN "" ELSE Val(tipo)]]
            /\ pc' = [pc EXCEPT ![w] = "my_tipos"]
            /\ UNCHANGED resp

\* Lines 289-296: one count for the next tipo of the choices, kept in
\* tipos_eventos when it is above zero.
MyTipos(w) ==
    /\ pc[w] = "my_tipos"
    /\ UNCHANGED <<users, categories, events, nextId, links, regs, comments, now, resp>>
    /\ LET tipo_code == TipoEvento[rq[w].i]
           count == tipo_count(rq[w].user, tipo_code)
       IN  /\ rq' = [rq EXCEPT ![w].i = @ + 1,
                               ![w].tipos_eventos =
                                    IF count > 0 THEN Append(@, <<tipo_code, count>>) ELSE @]
           /\ pc' = [pc EXCEPT ![w] = IF rq[w].i = NumTipos THEN "my_total" ELSE "my_tipos"]

\* Line 299: total_eventos = mis_registros.count()
MyTotal(w) ==
    /\ pc[w] = "my_total"
    /\ UNCHANGED <<users, categories, events, nextId, links, regs, comments, now, resp>>
    /\ rq' = [rq EXCEPT ![w].total = total_eventos(rq[w].user, rq[w].tipo_evento)]
    /\ pc' = [pc EXCEPT ![w] = "my_asistidos_now"]

\* Line 301: timezone.now(), the argument of the filter.
MyAsistidosNow(w) ==
    /\ pc[w] = "my_asistidos_now"
    /\ UNCHANGED <<users, categories, events, nextId, links, regs, comments, now, resp>>
    /\ rq' = [rq EXCEPT ![w].ahora = now]
    /\ pc' = [pc EXCEPT ![w] = "my_asistidos"]

\* Line 301: eventos_asistidos = ...count()
MyAsistidos(w) ==
    /\ pc[w] = "my_asistidos"
    /\ UNCHANGED <<users, categories, events, nextId, links, regs, comments, now, resp>>
    /\ rq' = [rq EXCEPT ![w].asistidos =
                eventos_asistidos(rq[w].user, rq[w].tipo_evento, rq[w].ahora)]
    /\ pc' = [pc EXCEPT ![w] = "my_proximos_now"]

\* Line 302: timezone.now(), the argument of the filter.
MyProximosNow(w) ==
    /\ pc[w] = "my_proximos_now"
    /\ UNCHANGED <<users, categories, events, nextId, links, regs, comments, now, resp>>
    /\ rq' = [rq EXCEPT ![w].ahora = now]
    /\ pc' = [pc EXCEPT ![w] = "my_proximos"]

\* Lines 302-314: eventos_proximos = ...count(), and the page with the counts
\* (the rows it lists and the clock of line 311 are left out of the response).
MyProximos(w) ==
    /\ pc[w] = "my_proximos"
    /\ UNCHANGED <<users, categories, events, nextId, links, regs, comments, now>>
    /\ Finish(w, MyPage(rq[w].total, rq[w].asistidos,
                        eventos_proximos(rq[w].user, rq[w].tipo_evento, rq[w].ahora),
                        rq[w].tipos_eventos))

\* ---------------------------------------------------------------- EventCommentView.post
\* The view function. urlpatterns gives it no path (see CommentRequest), so it
\* runs only when it is called as a function, EventCommentView.as_view()(request,
\* event_id): the steps below are that call.
CommentLoginRequired ==
    Response("event_comment", "302:login", "error", "Debes iniciar sesion para comentar en un evento.")
CommentAdded ==
    Response("event_comment", "302:event_detail", "success", "Tu comentario ha sido agregado.")
CommentEmpty ==
    Response("event_comment", "302:event_detail", "error", "El comentario no puede estar vacio.")

\* The calls that are about to insert a comment.
Commenting == {w \in Workers : pc[w] = "comment_create"}

\* Lines 192-199, 204-207: the authentication check, get_object_or_404 and the
\* stripped text of the comment.
CommentStart(w, u, e, comentario) ==
    LET comentario_texto == Strip(IF comentario = None THEN <<>> ELSE Val(comentario))
    IN  /\ pc[w] = "idle"
        /\ UNCHANGED <<users, categories, events, nextId, links, regs, comments, now>>
        /\ IF u = Anonymous THEN Finish(w, CommentLoginRequired)
           ELSE IF ~Found(e) THEN Finish(w, Http404("event_comment"))
           ELSE IF comentario_texto # <<>> THEN
                /\ Len(comments) + Cardinality(Commenting) < MaxComments
                /\ rq' = [rq EXCEPT ![w] =
                            [NoRequest EXCEPT !.user = u, !.event = e, !.texto = comentario_texto]]
                /\ pc' = [pc EXCEPT ![w] = "comment_create"]
                /\ UNCHANGED resp
           ELSE Finish(w, CommentEmpty)

\* Lines 200-203: EventComment.objects.create(); the foreign keys to Event and
\* to the user are constraints of the table and their IntegrityError is caught
\* nowhere.
CommentCreate(w) ==
    /\ pc[w] = "comment_create"
    /\ UNCHANGED <<users, categories, events, nextId, links, regs, now>>
    /\ IF rq[w].event \in DOMAIN events /\ rq[w].user \in users
       THEN /\ comments' = Append(comments,
                   [evento |-> rq[w].event, usuario |-> rq[w].user, comentario |-> rq[w].texto])
            /\ Finish(w, CommentAdded)
       ELSE /\ UNCHANGED comments
            /\ Finish(w, Response("event_comment", "500", "none", "IntegrityError"))

\* ---------------------------------------------------------------- urls.py
\* urlpatterns names no path for EventCommentView: a request to comment
\* matches no pattern and the resolver answers 404, whoever sends it and
\* whatever it carries; no request runs EventCommentView.post.
CommentRequest(w, u, e, comentario) ==
    /\ pc[w] = "idle"
    /\ UNCHANGED <<users, categories, events, nextId, links, regs, comments, now>>
    /\ Finish(w, Http404("urls"))

\* ---------------------------------------------------------------- admin site, EventRegistration
\* The add and change forms of the admin site for EventRegistration: the form
\* validates the row (EventRegistration.clean, then the uniqueness of the
\* pair), then save() runs clean() once more and writes the row. rq[w].fila is
\* the row a change form edits (None in an add form), rq[w].guardando says
\* that the form is valid and save() runs.
NotSaved(msg) == Response("admin", "not saved", "error", msg)
\* A ValidationError of clean(): a form error while the form is validated,
\* an error nothing catches inside save().
Refused(w, msg) ==
    IF rq[w].guardando THEN Response("admin", "500", "none", "ValidationError")
    ELSE NotSaved(msg)
\* Where the form goes when clean() returns.
AfterClean(w) == IF rq[w].guardando THEN "admin_write" ELSE "admin_unique"
\* Lines 270-271: the duplicate check runs only for a row without primary key.
AfterPuede(w) == IF rq[w].fila = None THEN "admin_exists" ELSE AfterClean(w)

\* The form is posted: the row to change is looked up, and the evento and the
\* usuario chosen are loaded.
AdminStart(w, fila, e, u) ==
    /\ pc[w] = "idle"
    /\ UNCHANGED <<users, categories, events, nextId, links, regs, comments, now>>
    /\ IF fila # None /\ regs[Val(fila)] = 0
       THEN Finish(w, NotSaved("the row does not exist"))
       ELSE IF e \notin DOMAIN events \/ u \notin users
       THEN Finish(w, NotSaved("evento, usuario"))
       ELSE /\ rq' = [rq EXCEPT ![w] =
                        [NoRequest EXCEPT !.user = u, !.event = e, !.evento = events[e],
                                          !.fila = fila, !.registro = fila # None]]
            /\ pc' = [pc EXCEPT ![w] = "admin_puede_activo"]
            /\ UNCHANGED resp

\* EventRegistration.clean line 263: puede_registrarse() reads the clock.
AdminPuedeActivo(w) ==
    /\ pc[w] = "admin_puede_activo"
    /\ UNCHANGED <<users, categories, events, nextId, links, regs, comments, now>>
    /\ IF esta_activo(rq[w].evento)
       THEN IF rq[w].evento.capacidad = None
            THEN Goto(w, AfterPuede(w))
            ELSE Goto(w, "admin_puede_lleno")
       ELSE IF rq[w].evento.capacidad = None
            THEN Goto(w, "admin_activo")
            ELSE Goto(w, "admin_lleno")

\* EventRegistration.clean line 263: puede_registrarse() counts the registrations.
AdminPuedeLleno(w) ==
    /\ pc[w] = "admin_puede_lleno"
    /\ UNCHANGED <<users, categories, events, nextId, links, regs, comments, now>>
    /\ IF esta_lleno(rq[w].evento, rq[w].event)
       THEN Goto(w, "admin_lleno")
       ELSE Goto(w, AfterPuede(w))

\* EventRegistration.clean lines 264-265: esta_lleno() counts again.
AdminLleno(w) ==
    /\ pc[w] = "admin_lleno"
    /\ UNCHANGED <<users, categories, events, nextId, links, regs, comments, now>>
    /\ IF esta_lleno(rq[w].evento, rq[w].event)
       THEN Finish(w, Refused(w, "El evento esta lleno."))
       ELSE Goto(w, "admin_activo")

\* EventRegistration.clean lines 266-267: esta_activo() reads the clock again.
AdminActivo(w) ==
    /\ pc[w] = "admin_activo"
    /\ UNCHANGED <<users, categories, events, nextId, links, regs, comments, now>>
    /\ IF ~esta_activo(rq[w].evento)
       THEN Finish(w, Refused(w, "El evento no esta activo o ya finalizo."))
       ELSE Goto(w, AfterPuede(w))

\* EventRegistration.clean lines 270-275: the duplicate check of a new row.
AdminExists(w) ==
    /\ pc[w] = "admin_exists"
    /\ UNCHANGED <<users, categories, events, nextId, links, regs, comments, now>>
    /\ IF regs[<<rq[w].event, rq[w].user>>] > 0
       THEN Finish(w, Refused(w, "El usuario ya esta registrado en este evento."))
       ELSE Goto(w, AfterClean(w))

\* The form's check of unique_together: a row of the pair other than the one
\* the form edits. A valid form goes on to save(), models.py line 279.
AdminUnique(w) ==
    LET p == <<rq[w].event, rq[w].user>>
    IN  /\ pc[w] = "admin_unique"
        /\ UNCHANGED <<users, categories, events, nextId, links, regs, comments, now>>
        /\ IF regs[p] > 0 /\ ~(rq[w].registro /\ Row(w) = p)
           THEN Finish(w, NotSaved("evento, usuario: unique"))
           ELSE /\ rq' = [rq EXCEPT ![w].guardando = TRUE]
                /\ pc' = [pc EXCEPT ![w] = "admin_puede_activo"]
                /\ UNCHANGED resp

\* EventRegistration.save line 280: the INSERT of a new row; for a row with a
\* primary key the UPDATE, or the INSERT when the row is gone. The foreign keys
\* and unique_together are constraints of the table. A request that holds the
\* row holds it with its new pair.
AdminWrite(w) ==
    LET new == <<rq[w].event, rq[w].user>>
        old == Row(w)
        own == rq[w].registro
    IN  /\ pc[w] = "admin_write"
        /\ UNCHANGED <<users, categories, events, nextId, links, comments, now>>
        /\ pc' = [pc EXCEPT ![w] = "idle"]
        /\ IF /\ rq[w].event \in DOMAIN events
              /\ rq[w].user \in users
              /\ regs[new] = 0 \/ (own /\ old = new)
           THEN /\ regs' = [[regs EXCEPT ![old] = IF own THEN 0 ELSE @] EXCEPT ![new] = 1]
                /\ resp' = Saved
                /\ rq' = [x \in Workers |->
                            IF x = w THEN NoRequest
                            ELSE IF own /\ old # new /\ x \in Holders(old)
                                 THEN [rq[x] EXCEPT !.fila = Some(new)]
                                 ELSE rq[x]]
           ELSE /\ UNCHANGED regs
                /\ resp' = Response("admin", "500", "none", "IntegrityError")
                /\ rq' = [rq EXCEPT ![w] = NoRequest]

\* ---------------------------------------------------------------- specifications
\* A new request goes to the first worker that is free.
Free(w) == pc[w] = "idle" /\ \A x \in Workers : x < w => pc[x] # "idle"
\* No request is under way.
AllIdle == \A w \in Workers : pc[w] = "idle"

\* The steps of the register and cancel requests that are under way.
RegisterSteps ==
    \/ \E w \in Workers : CancelFirst(w)
    \/ \E w \in Workers : CancelDelete(w)
    \/ \E w \in Workers : Exists(w)
    \/ \E w \in Workers : PuedeActivo(w)
    \/ \E w \in Workers : PuedeLleno(w)
    \/ \E w \in Workers : Lleno(w)
    \/ \E w \in Workers : CleanPuedeActivo(w)
    \/ \E w \in Workers : CleanPuedeLleno(w)
    \/ \E w \in Workers : CleanLleno(w)
    \/ \E w \in Workers : CleanActivo(w)
    \/ \E w \in Workers : CleanExists(w)
    \/ \E w \in Workers : Insert(w)

\* The steps of the my-events requests that are under way.
MyEventsSteps ==
    \/ \E w \in Workers : MyTipos(w)
    \/ \E w \in Workers : MyTotal(w)
    \/ \E w \in Workers : MyAsistidosNow(w)
    \/ \E w \in Workers : MyAsistidos(w)
    \/ \E w \in Workers : MyProximosNow(w)
    \/ \E w \in Workers : MyProximos(w)

\* The steps of the admin site's EventRegistration forms that are under way.
AdminSteps ==
    \/ \E w \in Workers : AdminPuedeActivo(w)
    \/ \E w \in Workers : AdminPuedeLleno(w)
    \/ \E w \in Workers : AdminLleno(w)
    \/ \E w \in Workers : AdminActivo(w)
    \/ \E w \in Workers : AdminExists(w)
    \/ \E w \in Workers : AdminUnique(w)
    \/ \E w \in Workers : AdminWrite(w)

\* The events an administrator can have saved.
ValidEvents == {ev \in EventInputs : Event_clean(ev) = "ok"}
\* Of these, the ones that differ in a field a register or cancel request reads.
RegisterEvents == {ev \in ValidEvents : ev.precio = None /\ ev.tipo = TipoEvento[1]}
\* ... in a field a register or my-events request reads.
MyEventsEvents ==
    {ev \in ValidEvents : ev.precio = None /\ ev.activo /\ ev.capacidad = Some(MaxCap)}
\* The event a store of one event holds: the one saved first.
OneEvent == {e \in EventIds : e <= 1}

\* A store of one saved event, nobody registered yet.
InitConc ==
    /\ users = Users
    /\ categories = Categories
    /\ events \in [OneEvent -> RegisterEvents]
    /\ nextId = MaxEvents + 1
    /\ links = {}
    /\ regs = [p \in EventIds \X Users |-> 0]
    /\ comments = <<>>
    /\ now = 0
    /\ resp = Response("none", "none", "none", "none")
    /\ pc = [w \in Workers |-> "idle"]
    /\ rq = [w \in Workers |-> NoRequest]

\* Register and cancel requests of several workers, interleaved read by read,
\* while the clock runs and the administrator saves and deletes events (a
\* save that Event.clean refuses changes nothing in the store).
NextConc ==
    \/ Tick
    \/ \E e \in EventIds, ev \in RegisterEvents : e \in DOMAIN events /\ EventSave(e, ev)
    \/ \E e \in EventIds : EventDelete(e)
    \/ \E w \in Workers, u \in Requesters, e \in UrlIds, cancel \in CancelInputs :
            Free(w) /\ Start(w, u, e, cancel)
    \/ RegisterSteps

SpecConc == InitConc /\ [][NextConc]_vars

\* The same with the detail requests and the requests to comment.
NextViews ==
    \/ NextConc
    \/ \E w \in Workers, u \in Requesters, e \in UrlIds : Free(w) /\ DetailStart(w, u, e)
    \/ \E w \in Workers : DetailExists(w)
    \/ \E w \in Workers, u \in Requesters, e \in UrlIds, c \in ComentarioInputs :
            Free(w) /\ CommentRequest(w, u, e, c)

SpecViews == InitConc /\ [][NextViews]_vars

\* A store of one saved event of every tipo, nobody registered yet.
InitMyEvents ==
    /\ users = Users
    /\ categories = Categories
    /\ events \in [OneEvent -> MyEventsEvents]
    /\ nextId = MaxEvents + 1
    /\ links = {}
    /\ regs = [p \in EventIds \X Users |-> 0]
    /\ comments = <<>>
    /\ now = 0
    /\ resp = Response("none", "none", "none", "none")
    /\ pc = [w \in Workers |-> "idle"]
    /\ rq = [w \in Workers |-> NoRequest]

\* The worker that serves the my-events requests, and the user who asks.
MyWorker == 1
MyUser == 1

\* The my-events requests of one user, interleaved read by read with the
\* register and cancel requests the other workers serve, while the clock runs
\* and the administrator saves and deletes events.
NextMyEvents ==
    \/ Tick
    \/ \E e \in EventIds, ev \in MyEventsEvents : e \in DOMAIN events /\ EventSave(e, ev)
    \/ \E e \in EventIds : EventDelete(e)
    \/ \E w \in Workers \ {MyWorker}, u \in Users, e \in EventIds, cancel \in CancelInputs :
            Start(w, u, e, cancel)
    \/ RegisterSteps
    \/ \E tipo \in TipoInputs : MyStart(MyWorker, MyUser, tipo)
    \/ MyEventsSteps

SpecMyEvents == InitMyEvents /\ [][NextMyEvents]_vars

\* Register and cancel requests of several workers, interleaved read by read,
\* on events that no administrator touches any more.
NextRace ==
    \/ Tick
    \/ \E w \in Workers, u \in Requesters, e \in UrlIds, cancel \in CancelInputs :
            Free(w) /\ Start(w, u, e, cancel)
    \/ RegisterSteps

SpecRace == InitConc /\ [][NextRace]_vars

\* Register and cancel requests alone, each running to its end before the next
\* one starts, on events that no administrator touches any more.
NextRequests ==
    \/ Tick
    \/ \E w \in Workers, u \in Requesters, e \in UrlIds, cancel \in CancelInputs :
            AllIdle /\ Free(w) /\ Start(w, u, e, cancel)
    \/ RegisterSteps

SpecRequests == InitConc /\ [][NextRequests]_vars

\* The administrator saves events with every input of the form, valid or not,
\* of every tipo, and deletes events, from the empty store on and at any moment
\* of the detail requests that are under way. No step here reads the clock.
NextSave ==
    \/ \E e \in EventIds, ev \in EventInputs : EventSave(e, ev)
    \/ \E e \in EventIds : EventDelete(e)
    \/ \E w \in Workers, u \in Requesters, e \in UrlIds : Free(w) /\ DetailStart(w, u, e)
    \/ \E w \in Workers : DetailExists(w)

SpecSave == Init /\ [][NextSave]_vars

\* EventCommentView.post called as a function by any requester, for any id and
\* any body, two calls at a time, while an administrator edits and deletes the
\* event, deletes comments and accounts, and the clock advances. No URL starts
\* these steps: no specification of the requests contains them.
NextCommentView ==
    \/ Tick
    \/ \E e \in DOMAIN events, ev \in RegisterEvents : EventSave(e, ev)
    \/ \E e \in EventIds : EventDelete(e)
    \/ \E i \in 1..MaxComments : EventCommentDelete(i)
    \/ \E u \in Users : UserDelete(u)
    \/ \E w \in Workers, u \in Requesters, e \in UrlIds, c \in ComentarioInputs :
            Free(w) /\ CommentStart(w, u, e, c)
    \/ \E w \in Workers : CommentCreate(w)

SpecCommentView == InitConc /\ [][NextCommentView]_vars

\* The EventRegistration rows: what a change form of the admin site can edit.
Pairs == EventIds \X Users
FilaInputs == {None} \cup {Some(p) : p \in Pairs}
\* The worker that serves the forms of the admin site.
AdminWorker == 1

\* The register and cancel requests of the users, interleaved read by read
\* with the administrator's add and change forms for EventRegistration, while
\* the clock runs and the administrator saves and deletes events and deletes
\* registrations.
NextForms ==
    \/ Tick
    \/ \E e \in EventIds, ev \in RegisterEvents : e \in DOMAIN events /\ EventSave(e, ev)
    \/ \E e \in EventIds : EventDelete(e)
    \/ \E p \in Pairs : EventRegistrationDelete(p)
    \/ \E f \in FilaInputs, e \in EventIds, u \in Users : AdminStart(AdminWorker, f, e, u)
    \/ AdminSteps
    \/ \E w \in Workers \ {AdminWorker}, u \in Requesters, e \in UrlIds,
          cancel \in CancelInputs :
            Start(w, u, e, cancel)
    \/ RegisterSteps

SpecForms == InitConc /\ [][NextForms]_vars

\* Of the events an administrator can have saved, the ones with a capacidad,
\* flagged active or not.
StoreEvents == {ev \in RegisterEvents : ev.capacidad = Some(MaxCap)}

\* The accounts have signed up and the categories are entered; no event yet,
\* and the clock stands one tick before the end of the events to come.
InitStore ==
    /\ users = Users
    /\ categories = Categories
    /\ events = <<>>
    /\ nextId = 1
    /\ links = {}
    /\ regs = [p \in EventIds \X Users |-> 0]
    /\ comments = <<>>
    /\ now = MaxTime
    /\ resp = Response("none", "none", "none", "none")
    /\ pc = [w \in Workers |-> "idle"]
    /\ rq = [w \in Workers |-> NoRequest]

\* The administrator's writes to every table.
StoreWrites ==
    \/ \E e \in EventIds, ev \in StoreEvents : EventSave(e, ev)
    \/ \E e \in EventIds : EventDelete(e)
    \/ \E e \in EventIds, c \in Categories : EventCategorySave(e, c)
    \/ \E l \in EventIds \X Categories, e \in EventIds, c \in Categories :
            EventCategoryChange(l, e, c)
    \/ \E l \in EventIds \X Categories : EventCategoryDelete(l)
    \/ \E c \in Categories : CategoryDelete(c)
    \/ \E e \in EventIds, u \in Users, t \in Comentarios : EventCommentSave(e, u, t)
    \/ \E i \in 1..MaxComments, e \in EventIds, u \in Users, t \in Comentarios :
            EventCommentChange(i, e, u, t)
    \/ \E i \in 1..MaxComments : EventCommentDelete(i)
    \/ \E p \in Pairs : EventRegistrationDelete(p)
    \/ \E u \in Users : UserDelete(u)

\* Every table of the store, from the first event on: the administrator
\* saves, changes and deletes events, category links, comments, registrations,
\* categories and accounts while the clock runs, at any moment of the request
\* or form that is under way: a register or cancel request of one user, or an
\* add or change form of the admin site for a registration of that user.
NextStore ==
    \/ Tick
    \/ StoreWrites
    \/ \E f \in {None} \cup {Some(<<e, MyUser>>) : e \in EventIds}, e \in EventIds :
            AdminStart(AdminWorker, f, e, MyUser)
    \/ AdminSteps
    \/ \E e \in UrlIds, cancel \in CancelInputs :
            Start(AdminWorker, LoggedIn(MyUser), e, cancel)
    \/ RegisterSteps

SpecStore == InitStore /\ [][NextStore]_vars

\* ---------------------------------------------------------------- properties
\* Number of EventRegistration rows of event e in the table r.
Rows(r, e) == Sum([u \in Users |-> r[<<e, u>>]], Users)
\* Whether the table r holds a row of the pair (e, u).
HasReg(r, e, u) == <<e, u>> \in DOMAIN r /\ r[<<e, u>>] > 0
\* A register request: EventRegisterView.post without a value in the cancel field.
IsRegister(cancel) == cancel = None \/ Val(cancel) = ""
\* The store is left as it was.
StoreUnchanged == UNCHANGED <<users, categories, events, nextId, links, regs, comments>>
\* The event of the store has reached its capacidad.
AtCapacity(e) ==
    events[e].capacidad # None /\ Rows(regs, e) >= Val(events[e].capacidad)
\* The request of worker w makes the read at label in this step.
Takes(w, label) == pc[w] = label /\ pc'[w] # label
\* Worker w takes up a request in this step, or answers one at its first line.
Answers(w) == pc[w] = "idle" /\ (pc'[w] # "idle" \/ resp' # resp)
\* The pair (event, user) of the request of worker w.
Pair(w) == <<rq[w].event, rq[w].user>>
\* The event of worker w's request, by the fields the request loaded and the
\* registrations of the store now: it has reached its capacidad.
LoadedFull(w) ==
    /\ rq[w].evento.capacidad # None
    /\ Rows(regs, rq[w].event) >= Val(rq[w].evento.capacidad)
\* ... its end has passed.
LoadedEnded(w) == rq[w].evento.fecha_fin < now
\* ... it is flagged active and has not ended: what esta_activo() reads.
LoadedActive(w) == rq[w].evento.activo /\ ~LoadedEnded(w)
\* The reads of a register request, in the order of the code.
ViewLabels == {"exists", "puede_activo", "puede_lleno", "lleno"}
CleanLabels == {"clean_puede_activo", "clean_puede_lleno", "clean_lleno", "clean_activo",
                "clean_exists"}
\* Each read of a register request goes on as the code does: by the clock and
\* the fields the request loaded where it reads the clock, by the rows of the
\* store where it runs a query.
ReadsDecide(w) ==
    /\ Takes(w, "exists") =>
        (pc'[w] = "puede_activo" <=> ~HasReg(regs, rq[w].event, rq[w].user))
    /\ Takes(w, "puede_activo") =>
        /\ pc'[w] = "lleno" <=> ~LoadedActive(w)
        /\ pc'[w] = "puede_lleno" <=> (LoadedActive(w) /\ rq[w].evento.capacidad # None)
        /\ pc'[w] = "clean_puede_activo" <=> (LoadedActive(w) /\ rq[w].evento.capacidad = None)
    /\ Takes(w, "puede_lleno") =>
        /\ pc'[w] = "lleno" <=> LoadedFull(w)
        /\ pc'[w] = "clean_puede_activo" <=> ~LoadedFull(w)
    /\ Takes(w, "clean_puede_activo") =>
        /\ pc'[w] = "clean_exists" <=> (LoadedActive(w) /\ rq[w].evento.capacidad = None)
        /\ pc'[w] = "clean_puede_lleno" <=> (LoadedActive(w) /\ rq[w].evento.capacidad # None)
        /\ pc'[w] = "clean_lleno" <=> (~LoadedActive(w) /\ rq[w].evento.capacidad # None)
        /\ pc'[w] = "clean_activo" <=> (~LoadedActive(w) /\ rq[w].evento.capacidad = None)
    /\ Takes(w, "clean_puede_lleno") =>
        /\ pc'[w] = "clean_lleno" <=> LoadedFull(w)
        /\ pc'[w] = "clean_exists" <=> ~LoadedFull(w)
    /\ Takes(w, "clean_lleno") =>
        /\ pc'[w] = "idle" <=> LoadedFull(w)
        /\ pc'[w] = "clean_activo" <=> ~LoadedFull(w)
    /\ Takes(w, "clean_activo") =>
        /\ pc'[w] = "idle" <=> ~LoadedActive(w)
        /\ pc'[w] = "clean_exists" <=> LoadedActive(w)
    /\ Takes(w, "clean_exists") =>
        (pc'[w] = "insert" <=> ~HasReg(regs, rq[w].event, rq[w].user))
\* A read is reached from the reads before it only.
ReadsInOrder(w) ==
    /\ (pc'[w] = "insert" /\ pc[w] # "insert") => pc[w] = "clean_exists"
    /\ (pc'[w] = "clean_exists" /\ pc[w] # "clean_exists")
        => pc[w] \in {"clean_puede_activo", "clean_puede_lleno", "clean_activo"}
    /\ (pc'[w] = "clean_activo" /\ pc[w] # "clean_activo")
        => pc[w] \in {"clean_puede_activo", "clean_lleno"}
    /\ (pc'[w] = "clean_lleno" /\ pc[w] # "clean_lleno")
        => pc[w] \in {"clean_puede_activo", "clean_puede_lleno"}
    /\ (pc'[w] = "clean_puede_lleno" /\ pc[w] # "clean_puede_lleno")
        => pc[w] = "clean_puede_activo"
    /\ (pc'[w] = "clean_puede_activo" /\ pc[w] # "clean_puede_activo")
        => pc[w] \in {"puede_activo", "puede_lleno"}
    /\ (pc'[w] = "lleno" /\ pc[w] # "lleno") => pc[w] \in {"puede_activo", "puede_lleno"}
    /\ (pc'[w] = "puede_lleno" /\ pc[w] # "puede_lleno") => pc[w] = "puede_activo"
    /\ (pc'[w] = "puede_activo" /\ pc[w] # "puede_activo") => pc[w] = "exists"

\* C1: for every event whose capacidad is set and stays as it is, the number of
\* its registrations never exceeds capacidad, whatever register and cancel
\* requests the users send, each request running to its end before the next
\* one starts.
C1_CapacityNeverExceeded ==
    \A e \in DOMAIN events :
        events[e].capacidad # None => Rows(regs, e) <= Val(events[e].capacidad)

\* An event is full and a request to register in it was turned away as full.
C1_Witness ==
    /\ resp = EventFull
    /\ \E e \in DOMAIN events :
        events[e].capacidad # None /\ Rows(regs, e) = Val(events[e].capacidad)

\* C2: no pair (evento, usuario) ever has two EventRegistration rows, also when
\* the requests of several workers interleave; and a register request that
\* finds the pair registered at its duplicate check adds no row and answers
\* with the informational message.
C2_OneRowPerPair ==
    [][ /\ \A p \in DOMAIN regs' : regs'[p] <= 1
        /\ \A w \in Workers :
            (Takes(w, "exists") /\ HasReg(regs, rq[w].event, rq[w].user))
            => /\ regs' = regs
               /\ resp' = AlreadyRegistered
               /\ resp'.level = "info"
               /\ pc'[w] = "idle" ]_vars

\* Two requests of one user for one event interleave: both passed every check,
\* one has written its row and the other is about to insert.
C2_Witness ==
    \E w \in Workers :
        /\ pc[w] = "insert"
        /\ HasReg(regs, rq[w].event, rq[w].user)

\* C3 as stated: a step takes a pair (event, user) from unregistered to
\* registered only if, in the state it leaves, the event exists, is flagged
\* active and has not ended, it is not full, and the pair has no registration.
C3_Original ==
    [][ \A p \in DOMAIN regs :
            (regs[p] = 0 /\ regs'[p] > 0) =>
                /\ p[1] \in DOMAIN events
                /\ puede_registrarse(events[p[1]], p[1]) ]_vars

\* C3 as amended: a pair (event, user) goes from unregistered to registered
\* only by the INSERT of a register request of that authenticated user, for an
\* event that exists and whose row was flagged active when the request loaded
\* it, with no registration of the pair in the store. The request reaches the
\* INSERT only if each of its reads came out so: the pair had no registration
\* at the two duplicate checks; in the view esta_activo() read true on the
\* clock and the event had a seat left at the count; in clean() the same, or,
\* where the count of puede_registrarse() found the event full, the second
\* count found a seat and the second reading of the clock found the event
\* active. A request in which a read comes out otherwise adds no row. Between
\* one read and the next, and before the INSERT, the event may fill up or end.
C3_RegisterOnlyWhenEligible ==
    [][ /\ \A p \in DOMAIN regs :
            (regs[p] = 0 /\ regs'[p] > 0) =>
                \E w \in Workers :
                    /\ Takes(w, "insert")
                    /\ Pair(w) = p
                    /\ rq[w].user \in Users
                    /\ p[1] \in DOMAIN events
                    /\ rq[w].evento.activo
                    /\ resp' = Registered
        /\ \A w \in Workers :
            /\ ReadsDecide(w)
            /\ ReadsInOrder(w)
            /\ (pc[w] \in ViewLabels \cup CleanLabels /\ pc'[w] # pc[w])
                => /\ regs' = regs
                   /\ pc'[w] \in {"idle", "insert"} \cup ViewLabels \cup CleanLabels ]_vars

\* A register request went through: the user now holds a registration.
C3_Witness ==
    /\ resp = Registered
    /\ \E p \in DOMAIN regs : regs[p] = 1

\* C4 as stated: a register request of an authenticated user for an event of
\* the store is never answered not-found, and where it is rejected because
\* the event takes no registrations, an event past its end gets the "not
\* accepting registrations" message.
C4_Original ==
    [][ \A w \in Workers :
            /\ Answers(w) =>
                \A u \in Users, e \in EventIds, c \in CancelInputs :
                    (IsRegister(c) /\ e \in DOMAIN events /\ Start(w, u, e, c))
                        => pc'[w] = "exists"
            /\ (Takes(w, "lleno") /\ LoadedEnded(w)) => resp' = NotAccepting ]_vars

\* C4 as amended: a register request of an authenticated user names the first
\* reason that applies when it reads it, in this order: the event's activo
\* flag is off: not found (404); the pair is registered: the informational
\* message; esta_activo() reads false on the clock, or the count finds the
\* event full: the request counts the registrations (again) and answers
\* "full" if that count finds the event full, "not accepting registrations"
\* if not; none of them changes a registration. The event is full by the
\* capacidad the request loaded. So while an event flagged active holds
\* capacidad registrations, a register request of a user who is not
\* registered is turned away with "full".
C4_RejectionReasons ==
    [][ \A w \in Workers :
            /\ Answers(w) =>
                \A u \in Users, e \in EventIds, c \in CancelInputs :
                    (IsRegister(c) /\ e \in DOMAIN events /\ Start(w, u, e, c)) =>
                        IF events[e].activo
                        THEN pc'[w] = "exists" /\ StoreUnchanged
                        ELSE /\ resp' = Http404("event_register")
                             /\ pc'[w] = "idle"
                             /\ StoreUnchanged
            /\ Takes(w, "exists") =>
                /\ regs' = regs
                /\ IF HasReg(regs, rq[w].event, rq[w].user)
                   THEN resp' = AlreadyRegistered /\ resp'.level = "info" /\ pc'[w] = "idle"
                   ELSE pc'[w] = "puede_activo"
            /\ Takes(w, "puede_activo") =>
                /\ regs' = regs
                /\ pc'[w] = "lleno" <=> ~LoadedActive(w)
            /\ Takes(w, "puede_lleno") =>
                /\ regs' = regs
                /\ pc'[w] = "lleno" <=> LoadedFull(w)
            /\ Takes(w, "lleno") =>
                /\ regs' = regs
                /\ pc'[w] = "idle"
                /\ resp' = IF LoadedFull(w) THEN EventFull ELSE NotAccepting
            /\ (pc'[w] = "lleno" /\ pc[w] # "lleno") =>
                \/ pc[w] = "puede_activo" /\ ~LoadedActive(w)
                \/ pc[w] = "puede_lleno" /\ LoadedFull(w)
            /\ (pc[w] \in {"puede_activo", "puede_lleno", "lleno"}
                    /\ pc'[w] # pc[w] /\ rq[w].evento.activo /\ LoadedFull(w))
                => \/ pc'[w] = "lleno"
                   \/ pc'[w] = "puede_lleno"
                   \/ resp' = EventFull /\ pc'[w] = "idle" ]_vars

\* A full event has turned a user away with the "full" message.
C4_Witness ==
    /\ resp = EventFull
    /\ \E e \in DOMAIN events : events[e].activo /\ AtCapacity(e) /\ Rows(regs, e) > 0

\* C5 as stated: a cancel request of an authenticated user for an event of the
\* store on which the user is registered goes on to remove the registration,
\* whatever the event's state, a flag that is off included.
C5_Original ==
    [][ \A w \in Workers :
            Answers(w) =>
                \A u \in Users, e \in EventIds, c \in CancelInputs :
                    (/\ ~IsRegister(c)
                     /\ e \in DOMAIN events
                     /\ HasReg(regs, e, u)
                     /\ Start(w, u, e, c))
                        => pc'[w] = "cancel_first" ]_vars

\* C5 as amended: a cancel request of an authenticated user for an event whose
\* activo flag is on, be the event full or past its end, looks the user's
\* registration up; when it finds one it deletes that row, if the row is still
\* there, and answers with the success message; when it finds none it changes
\* nothing and answers with an informational message. A cancel request for an
\* event whose flag is off is answered 404 and leaves the registration in place.
C5_CancelRemoves ==
    [][ \A w \in Workers :
            /\ Answers(w) =>
                \A u \in Users, e \in EventIds, c \in CancelInputs :
                    (~IsRegister(c) /\ e \in DOMAIN events /\ Start(w, u, e, c)) =>
                        /\ StoreUnchanged
                        /\ IF events[e].activo
                           THEN pc'[w] = "cancel_first"
                           ELSE resp' = Http404("event_register") /\ pc'[w] = "idle"
            /\ Takes(w, "cancel_first") =>
                /\ regs' = regs
                /\ IF HasReg(regs, rq[w].event, rq[w].user)
                   THEN pc'[w] = "cancel_delete" /\ rq'[w].registro
                   ELSE /\ resp' = NothingToCancel
                        /\ resp'.level = "info"
                        /\ pc'[w] = "idle"
            /\ Takes(w, "cancel_delete") =>
                /\ resp' = Cancelled
                /\ pc'[w] = "idle"
                /\ rq[w].registro => (regs[Pair(w)] = 1 /\ regs'[Pair(w)] = 0)
                /\ ~rq[w].registro => regs' = regs
                /\ \A p \in DOMAIN regs \ {Pair(w)} : regs'[p] = regs[p]
            /\ (pc[w] \in {"cancel_first", "cancel_delete"} /\ rq[w].registro)
                => HasReg(regs, rq[w].event, rq[w].user) ]_vars

\* A registration of an event past its end has been cancelled, and a second
\* cancel request of the same user, which had found the row, is about to
\* delete a row that is gone.
C5_Witness ==
    /\ resp = Cancelled
    /\ \A p \in DOMAIN regs : regs[p] = 0
    /\ \E w \in Workers :
        /\ pc[w] = "cancel_delete"
        /\ ~rq[w].registro
        /\ rq[w].event \in DOMAIN events
        /\ events[rq[w].event].activo
        /\ events[rq[w].event].fecha_fin < now

\* C6 as stated: once the end of an event has passed, no register request adds
\* a registration of it.
C6_Original ==
    [][ \A p \in DOMAIN regs :
            regs'[p] > regs[p] =>
                (p[1] \in DOMAIN events /\ events[p[1]].fecha_fin >= now) ]_vars

\* The reads of a register request up to the last reading of the clock that
\* can let it through.
BeforeLastClock ==
    {"exists", "puede_activo", "puede_lleno", "lleno", "clean_puede_activo", "clean_lleno",
     "clean_activo"}

\* C6 as amended: esta_activo() is true exactly when the activo flag is on and
\* fecha_fin is not before now; the clock never runs back, so an event that is
\* active turns inactive by the passing of time alone, with no write to the
\* store, and stays so; from then on every esta_activo() that a register
\* request reads is false, and a request that has not yet passed the last
\* reading of the clock in clean() when its event ends adds no registration:
\* it is turned away. Only a request that read the clock in clean() before
\* the end can still write its row after it.
C6_ActiveUntilEnd ==
    [][ /\ now' >= now
        /\ \A e \in DOMAIN events' :
            (esta_activo(events[e]))' <=> (events'[e].activo /\ events'[e].fecha_fin >= now')
        /\ \A e \in DOMAIN events :
            (StoreUnchanged /\ esta_activo(events[e]) /\ events[e].fecha_fin < now')
                => (~esta_activo(events[e]))'
        /\ \A w \in Workers :
            /\ (pc[w] # "idle" /\ pc'[w] # "idle") => rq'[w].evento = rq[w].evento
            /\ (Takes(w, "puede_activo") /\ LoadedEnded(w)) => pc'[w] = "lleno"
            /\ (Takes(w, "clean_puede_activo") /\ LoadedEnded(w))
                => pc'[w] \in {"clean_lleno", "clean_activo"}
            /\ (Takes(w, "clean_activo") /\ LoadedEnded(w))
                => (resp' = TryAgain /\ pc'[w] = "idle")
            /\ (pc[w] \in BeforeLastClock /\ LoadedEnded(w) /\ pc'[w] # pc[w]) =>
                /\ regs' = regs
                /\ pc'[w] \in BeforeLastClock \cup {"idle"}
                /\ pc'[w] = "idle"
                    => resp' \in {AlreadyRegistered, EventFull, NotAccepting, TryAgain} ]_vars

\* An event flagged active is past its end and has turned a register request away.
C6_Witness ==
    /\ resp = NotAccepting
    /\ \E e \in DOMAIN events :
        events[e].activo /\ events[e].fecha_fin < now /\ ~esta_activo(events[e])

\* C7: esta_lleno() is true exactly when capacidad is set and the number of
\* registrations has reached it, espacios_disponibles() being
\* max(0, capacidad - total_registrados()); without capacidad an event is never full.
C7_FullIffCapacityReached ==
    \A e \in DOMAIN events :
        LET c == events[e].capacidad
        IN  /\ esta_lleno(events[e], e) <=> (c # None /\ Rows(regs, e) >= Val(c))
            /\ c = None => espacios_disponibles(events[e], e) = None
            /\ c # None =>
                espacios_disponibles(events[e], e) =
                    Some(IF Rows(regs, e) >= Val(c) THEN 0 ELSE Val(c) - Rows(regs, e))

\* An event holds more registrations than its capacidad (a request and a form
\* of the admin site took the last seat together, or the capacidad was lowered
\* afterwards) and counts as full.
C7_Witness ==
    \E e \in DOMAIN events :
        /\ events[e].capacidad # None
        /\ Rows(regs, e) > Val(events[e].capacidad)
        /\ esta_lleno(events[e], e)

\* C8 as stated: a detail request for an event that is inactive, by its flag or
\* because its end has passed, is answered 404.
C8_Original ==
    [][ \A w \in Workers :
            Answers(w) =>
                \A u \in Requesters, e \in EventIds :
                    (e \in DOMAIN events /\ ~esta_activo(events[e]) /\ DetailStart(w, u, e))
                        => (resp' = Http404("event_detail") /\ pc'[w] = "idle") ]_vars

\* C8 as amended: a detail request, or a register or cancel request of an
\* authenticated user, is answered 404 exactly when no event has the id or the
\* event's activo flag is off, the end of the event playing no part; a
\* register or cancel request without an authenticated user is redirected to
\* login whatever the id. The answer is decided by the first query of the
\* request and changes nothing in the store; a detail request changes nothing
\* in the store at all.
C8_NotFound ==
    [][ \A w \in Workers :
            /\ (Answers(w) /\ (pc'[w] = "detail_exists" \/ resp'.view = "event_detail")) =>
                \A u \in Requesters, e \in UrlIds :
                    LET missing == ~(e \in DOMAIN events /\ events[e].activo)
                    IN  DetailStart(w, u, e) =>
                            /\ StoreUnchanged
                            /\ (resp' = Http404("event_detail") /\ pc'[w] = "idle") <=> missing
                            /\ (~missing /\ u = Anonymous) => resp'.status = "200"
                            /\ (~missing /\ u # Anonymous) => pc'[w] = "detail_exists"
            /\ (Answers(w) /\ (pc'[w] \in {"cancel_first", "exists"}
                                \/ resp'.view = "event_register")) =>
                \A u \in Requesters, e \in UrlIds, c \in CancelInputs :
                    LET missing == ~(e \in DOMAIN events /\ events[e].activo)
                    IN  Start(w, u, e, c) =>
                            /\ StoreUnchanged
                            /\ u = Anonymous => (resp' = LoginRequired /\ pc'[w] = "idle")
                            /\ u # Anonymous =>
                                /\ pc'[w] = "idle" <=> missing
                                /\ missing => resp' = Http404("event_register")
            /\ Takes(w, "detail_exists") =>
                /\ StoreUnchanged
                /\ resp'.view = "event_detail"
                /\ resp'.status = "200"
                /\ pc'[w] = "idle" ]_vars

\* A register request was answered 404 for an event that is in the store with
\* its flag off, while a detail request for the event is under way.
C8_Witness ==
    /\ resp = Http404("event_register")
    /\ \E e \in DOMAIN events :
        /\ ~events[e].activo
        /\ \E w \in Workers : pc[w] = "detail_exists" /\ rq[w].event = e

\* C9: a request without an authenticated user to register, cancel, comment or
\* see my-events is redirected to login with a message and adds or removes no
\* registration and no comment, whatever the event id and the body.
C9_Original ==
    [][ \A w \in Workers :
            LET redirected ==
                    /\ resp'.status = "302:login"
                    /\ resp'.level \in {"error", "warning"}
                    /\ regs' = regs
                    /\ comments' = comments
                    /\ pc'[w] = "idle"
            IN  Answers(w) =>
                    /\ \A e \in UrlIds, c \in CancelInputs :
                        Start(w, Anonymous, e, c) => redirected
                    /\ \A e \in UrlIds, b \in ComentarioInputs :
                        CommentRequest(w, Anonymous, e, b) => redirected
                    /\ \A tipo \in TipoInputs :
                        MyStart(w, Anonymous, tipo) => redirected ]_vars

\* The conditions of Event.clean, on a row.
ValidEvent(ev) ==
    /\ ev.fecha_fin > ev.fecha_inicio
    /\ ev.capacidad = None \/ Val(ev.capacidad) >= 1
    /\ ev.precio = None \/ Val(ev.precio) >= 0

\* Event.clean accepts a row exactly when the row meets its conditions.
CleanRefusesInvalid ==
    \A ev \in EventInputs : (Event_clean(ev) = "ok") <=> ValidEvent(ev)

\* C10: every stored Event has fecha_fin > fecha_inicio, capacidad absent or
\* >= 1 and precio absent or >= 0; a save() that breaks one of these raises a
\* validation error and leaves the stored events as they were.
C10_SavedEventsValid ==
    [][ /\ \A e \in DOMAIN events' : ValidEvent(events'[e])
        /\ CleanRefusesInvalid
        /\ resp'.status = "ValidationError" =>
            /\ events' = events
            /\ nextId' = nextId
            /\ resp'.level = "error"
        /\ \A e \in DOMAIN events' :
            (e \notin DOMAIN events \/ events'[e] # events[e]) =>
                /\ Event_clean(events'[e]) = "ok"
                /\ resp' = Response("admin", "saved", "none", "ok") ]_vars

\* A save() with a capacidad below 1 was refused while a detail request is
\* under way for a stored event of the second tipo.
C10_Witness ==
    /\ resp = Response("admin", "ValidationError", "error", "capacidad")
    /\ \E w \in Workers :
        /\ pc[w] = "detail_exists"
        /\ rq[w].event \in DOMAIN events
        /\ events[rq[w].event].tipo = TipoEvento[2]


\* C11: with the requests of several workers interleaving, each reading of
\* puede_registrarse(), in the view and in EventRegistration.clean, lets a
\* request through only if the event is active on the clock and has an open
\* seat at the count, and a row is added only by the INSERT of a request that
\* passed them; but the readings and the INSERT are separate steps, so two
\* requests of distinct users can both pass them on the last open seat before
\* either inserts, and a state with total_registrados() > capacidad is
\* reached (C11_Witness), on an event that no administrator touches.
C11_ChecksNotAtomicWithInsert ==
    [][ /\ \A w \in Workers :
            /\ ReadsDecide(w)
            /\ (Takes(w, "puede_lleno") /\ pc'[w] = "clean_puede_activo") => ~LoadedFull(w)
            /\ (Takes(w, "clean_puede_lleno") /\ pc'[w] = "clean_exists") => ~LoadedFull(w)
            /\ (Takes(w, "clean_lleno") /\ pc'[w] = "clean_activo") => ~LoadedFull(w)
            /\ pc[w] # "idle" => rq[w].evento = events[rq[w].event]
        /\ \A p \in DOMAIN regs :
            regs'[p] > regs[p] =>
                \E w \in Workers :
                    /\ pc[w] = "insert"
                    /\ pc'[w] = "idle"
                    /\ <<rq[w].event, rq[w].user>> = p
                    /\ resp' = Registered ]_vars

\* Two users hold a registration of an event with fewer seats than that, the
\* second of them registered with the success message.
C11_Witness ==
    /\ resp = Registered
    /\ \E e \in DOMAIN events :
        /\ events[e].capacidad # None
        /\ total_registrados(e) > Val(events[e].capacidad)
        /\ \E u1, u2 \in Users : u1 # u2 /\ HasReg(regs, e, u1) /\ HasReg(regs, e, u2)

\* The labels of a request inside EventRegistration.objects.create(), after the
\* checks of the view have passed.
CreateLabels ==
    {"clean_puede_activo", "clean_puede_lleno", "clean_lleno", "clean_activo", "clean_exists",
     "insert"}

\* C12: a request that passed the checks of the view ends either with its row
\* inserted and the success message, or, when EventRegistration.clean raises or
\* the INSERT breaks unique_together or the foreign key, with no row added, the
\* generic "try again" error message and the redirect to the detail page; the
\* request ends there (no step goes back to an earlier check) and no other
\* response leaves the handler.
C12_InsertFailureCaught ==
    [][ \A w \in Workers :
            LET p == <<rq[w].event, rq[w].user>>
            IN  /\ (pc[w] \in CreateLabels /\ pc'[w] # pc[w]) =>
                    /\ pc'[w] \in CreateLabels \cup {"idle"}
                    /\ pc'[w] = "idle" =>
                        /\ rq'[w] = NoRequest
                        /\ resp' \in {Registered, TryAgain}
                        /\ resp' = Registered =>
                            /\ pc[w] = "insert"
                            /\ regs[p] = 0
                            /\ regs' = [regs EXCEPT ![p] = 1]
                        /\ resp' = TryAgain =>
                            /\ regs' = regs
                            /\ resp'.status = "302:event_detail"
                            /\ resp'.level = "error"
                /\ (/\ pc[w] = "insert"
                    /\ pc'[w] # "insert"
                    /\ (regs[p] > 0 \/ rq[w].event \notin DOMAIN events))
                    => (resp' = TryAgain /\ regs' = regs /\ pc'[w] = "idle")
                /\ (pc[w] = "clean_exists" /\ pc'[w] # "clean_exists" /\ regs[p] > 0)
                    => (resp' = TryAgain /\ regs' = regs /\ pc'[w] = "idle") ]_vars

\* A request that passed the checks of the view was answered "try again" and
\* added no row: the store holds a single registration.
C12_Witness ==
    /\ resp = TryAgain
    /\ \E p \in DOMAIN regs : regs[p] = 1 /\ \A q \in DOMAIN regs \ {p} : regs[q] = 0

\* C13: deleting an event removes the event and every registration, comment and
\* category link of it, whatever the event's state (full, flagged inactive,
\* past its end), and leaves the other events, their registrations, comments
\* and category links as they were; so every registration, comment and
\* category link of the store refers to an event of the store, whoever wrote
\* it (a register request, the admin site), also while a request or a form for
\* the event is under way.
C13_DeleteCascades ==
    /\ [](/\ \A p \in DOMAIN regs : regs[p] > 0 => p[1] \in DOMAIN events
          /\ \A i \in 1..Len(comments) : comments[i].evento \in DOMAIN events
          /\ \A l \in links : l[1] \in DOMAIN events)
    /\ [][ \A e \in EventIds :
            EventDelete(e) =>
                /\ DOMAIN events' = DOMAIN events \ {e}
                /\ \A x \in DOMAIN events' : events'[x] = events[x]
                /\ \A p \in DOMAIN regs :
                    regs'[p] = IF p[1] = e THEN 0 ELSE regs[p]
                /\ links' = links \ ({e} \X Categories)
                /\ \A i \in 1..Len(comments') : comments'[i].evento # e
                /\ Len(comments') =
                    Len(comments) - Cardinality({i \in 1..Len(comments) : comments[i].evento = e})
                /\ \A i \in 1..Len(comments) :
                    comments[i].evento # e => \E j \in 1..Len(comments') : comments'[j] = comments[i] ]_vars

\* An event that held a registration, a comment and a category link was
\* deleted, and the store holds no row of it any more, while the other event
\* holds its registration still.
C13_Witness ==
    /\ resp.status = "deleted"
    /\ resp.msg[1] >= 1
    /\ resp.msg[2] >= 1
    /\ resp.msg[3] >= 1
    /\ Cardinality(DOMAIN events) = 1
    /\ nextId = MaxEvents + 1
    /\ \E p \in DOMAIN regs : regs[p] > 0 /\ p[1] \in DOMAIN events
    /\ \A p \in DOMAIN regs : p[1] \notin DOMAIN events => regs[p] = 0
    /\ \A i \in 1..Len(comments) : comments[i].evento \in DOMAIN events
    /\ \A l \in links : l[1] \in DOMAIN events

\* C14 as stated: on every my-events page, eventos_asistidos + eventos_proximos
\* does not exceed total_eventos.
C14_Original ==
    (resp.view = "my_events" /\ resp.status = "200")
        => resp.msg[2] + resp.msg[3] <= resp.msg[1]

\* C14 as amended: in every state of the store, for every user and every tipo
\* filter, no registration is counted both as attended (fecha_fin of its event
\* before now) and as upcoming (fecha_inicio of its event at or after now), at
\* whatever time the clock is read for the first count and, no earlier, for
\* the second; so eventos_asistidos + eventos_proximos never exceeds
\* total_eventos when the three are counted on one state of the store. It
\* holds because Event.clean lets no event with fecha_fin before fecha_inicio
\* into the store.
C14_AttendedUpcomingDisjoint ==
    \A u \in Users, tipo \in {""} \cup Tipos, t1, t2 \in 0..(MaxTime + 1) :
        t1 <= t2 =>
            /\ \A e \in DOMAIN events :
                HasReg(regs, e, u)
                    => ~(events[e].fecha_fin < t1 /\ events[e].fecha_inicio >= t2)
            /\ eventos_asistidos(u, tipo, t1) + eventos_proximos(u, tipo, t2)
                    <= total_eventos(u, tipo)

\* A my-events page filtered by tipo counted the user's one registration as
\* attended and none as upcoming: the event of the registration has ended.
C14_Witness ==
    /\ resp.view = "my_events"
    /\ resp.status = "200"
    /\ resp.msg[1] = 1
    /\ resp.msg[2] = 1
    /\ resp.msg[3] = 0
    /\ \E u \in Users, tipo \in Tipos :
        eventos_asistidos(u, tipo, now) = 1 /\ eventos_proximos(u, tipo, now) = 0
====
